---- MODULE Spec2Model ----
\* Model of src/server.py: the four CoinGecko tool handlers (get_coin_list,
\* get_price, get_market_data, get_trending), the helper coin_price_request,
\* and the prompt handlers (list_prompts, get_prompt).
\*
\* A Python str is a sequence of tokens (a token is a run of characters that
\* the code never looks inside); "" is <<>> and "," is a token of its own, so
\* that str.split(",") and ",".join(...) are computed, not assumed.
\* A keyword argument that is not supplied is a key missing from the argument
\* mapping.  JSON values are records tagged by t: "null" (Python None),
\* "dict" (field d, a function from keys) and "list" (field l, a sequence).
EXTENDS Integers, Sequences, FiniteSets, TLC

VARIABLES pc, req, gw, requests, result, raised, PROMPTS

vars == <<pc, req, gw, requests, result, raised, PROMPTS>>

\* ---------------------------------------------------------------- bounds
MaxSymLen == 3
MaxCatalog == 2

\* ------------------------------------------------------ program constants
DefaultPerPage == 100
DefaultPage == 1

\* ------------------------------------------------------------ Python bits
None == [t |-> "null"]

\* variant: "is not None" in place of truthiness, so "" counts as supplied
TruthyNotNone(args, k) == k \in DOMAIN args

Truthy(args, k) == k \in DOMAIN args /\ args[k] # <<>>

ArgOr(args, k, default) == IF k \in DOMAIN args THEN args[k] ELSE default

\* str.split(","): the fields between commas, empty fields kept.
RECURSIVE SplitAcc(_, _, _, _)
SplitAcc(s, i, cur, acc) ==
    IF i > Len(s) THEN Append(acc, cur)
    ELSE IF s[i] = "," THEN SplitAcc(s, i + 1, <<>>, Append(acc, cur))
    ELSE SplitAcc(s, i + 1, Append(cur, s[i]), acc)

Split(s) == SplitAcc(s, 1, <<>>, <<>>)

\* variant: only the first element is kept (list[0] in place of the join)
JoinFirstOnly(list) == IF list = <<>> THEN <<>> ELSE list[1]

\* ",".join(list)
RECURSIVE Join(_)
Join(list) ==
    IF list = <<>> THEN <<>>
    ELSE IF Len(list) = 1 THEN list[1]
    ELSE list[1] \o <<",">> \o Join(Tail(list))

\* str(bool) and str.lower() on its two outcomes
StrBool(b) == IF b THEN <<"True">> ELSE <<"False">>

\* variant: .lower() forgotten
LowerOmitted(s) == s

Lower(s) ==
    [i \in 1..Len(s) |->
        IF s[i] = "True" THEN "true" ELSE IF s[i] = "False" THEN "false" ELSE s[i]]

\* f"{n}" for the two integers the prompt renderer formats
IntText(n) == IF n = 100 THEN <<"100">> ELSE IF n = 1 THEN <<"1">> ELSE <<"?">>

\* ------------------------------------------------------------- the Gateway
\* A stubbed upstream response: a transport error, an HTTP error status, or a
\* success with a JSON body.
ErrorPayload(msg) == [t |-> "dict", d |-> [error |-> msg]]

Request(url, params) == [url |-> url, params |-> params]

Outcome(res, reqs) == [result |-> res, raised |-> "none", requests |-> reqs]

Raise(exc, reqs) == [result |-> None, raised |-> exc, requests |-> reqs]

\* try: client.get; raise_for_status; return response.json()
\* except RequestError / HTTPStatusError: return {"error": "<kind>: <e>"}
FetchOrErrorPayload(r) ==
    IF r.kind = "RequestError" THEN ErrorPayload(<<"Request error: ">> \o r.e)
    ELSE IF r.kind = "HTTPStatusError" THEN ErrorPayload(<<"HTTP error: ">> \o r.e)
    ELSE r.body

\* the same block in coin_price_request: both failures return None
FetchOrNone(r) ==
    IF r.kind = "RequestError" THEN None
    ELSE IF r.kind = "HTTPStatusError" THEN None
    ELSE r.body

\* ---------------------------------------------------------------- handlers
get_coin_list(g) ==
    Outcome(FetchOrErrorPayload(g["/coins/list"]),
            <<Request("/coins/list", <<>>)>>)

\* variant: the first catalog entry of a symbol wins (setdefault)
RECURSIVE SymbolToIdFirstWins(_, _)
SymbolToIdFirstWins(coin_list, n) ==
    IF n = 0 THEN <<>>
    ELSE LET m == SymbolToIdFirstWins(coin_list, n - 1)
             coin == coin_list[n]
         IN [s \in DOMAIN m \cup {coin.symbol} |->
                IF s \in DOMAIN m THEN m[s] ELSE coin.id]

\* symbol_to_id = {coin["symbol"]: coin["id"] for coin in coin_list}
RECURSIVE SymbolToId(_, _)
SymbolToId(coin_list, n) ==
    IF n = 0 THEN <<>>
    ELSE LET m == SymbolToId(coin_list, n - 1)
             coin == coin_list[n]
         IN [s \in DOMAIN m \cup {coin.symbol} |->
                IF s = coin.symbol THEN coin.id ELSE m[s]]

\* variant: a symbol with no catalog entry is passed through as an id
RECURSIVE ResolveLoopPassThrough(_, _, _)
ResolveLoopPassThrough(fields, symbol_to_id, n) ==
    IF n = 0 THEN <<>>
    ELSE LET resolved_ids == ResolveLoopPassThrough(fields, symbol_to_id, n - 1)
         IN IF fields[n] \in DOMAIN symbol_to_id
            THEN Append(resolved_ids, symbol_to_id[fields[n]])
            ELSE Append(resolved_ids, fields[n])

\* for symbol in symbols.split(","): if symbol in symbol_to_id: append
RECURSIVE ResolveLoop(_, _, _)
ResolveLoop(fields, symbol_to_id, n) ==
    IF n = 0 THEN <<>>
    ELSE LET resolved_ids == ResolveLoop(fields, symbol_to_id, n - 1)
         IN IF fields[n] \in DOMAIN symbol_to_id
            THEN Append(resolved_ids, symbol_to_id[fields[n]])
            ELSE resolved_ids

ResolveSymbols(symbols, coin_list) ==
    LET fields == Split(symbols)
    IN ResolveLoop(fields, SymbolToId(coin_list, Len(coin_list)), Len(fields))

\* variant: the price request is sent again after a failure
PriceFetchRetry(params, g, before) ==
    LET once == Append(before, Request("/simple/price", params))
    IN Outcome(FetchOrNone(g["/simple/price"]),
               IF g["/simple/price"].kind = "ok"
               THEN once
               ELSE Append(once, Request("/simple/price", params)))

PriceFetch(params, g, before) ==
    Outcome(FetchOrNone(g["/simple/price"]),
            Append(before, Request("/simple/price", params)))

coin_price_request(args, g) ==
    LET params == [vs_currencies |-> args["vs_currencies"]]
    IN IF Truthy(args, "ids")
       THEN PriceFetch(params @@ [ids |-> args["ids"]], g, <<>>)
       ELSE IF Truthy(args, "symbols")
       THEN LET fetched == get_coin_list(g)
                coin_list == fetched.result
            IN IF coin_list.t = "null"
               THEN Raise("TypeError", fetched.requests)
               ELSE IF coin_list.t = "dict" /\ "error" \in DOMAIN coin_list.d
               THEN Outcome(None, fetched.requests)
               ELSE IF coin_list.t = "dict" /\ DOMAIN coin_list.d # {}
               THEN Raise("TypeError", fetched.requests)
               ELSE LET entries == IF coin_list.t = "list" THEN coin_list.l ELSE <<>>
                        resolved_ids == ResolveSymbols(args["symbols"], entries)
                    IN IF resolved_ids = <<>>
                       THEN Outcome(ErrorPayload(<<"No valid symbols provided">>),
                                    fetched.requests)
                       ELSE PriceFetch(params @@ [ids |-> Join(resolved_ids)],
                                       g, fetched.requests)
       ELSE PriceFetch(params, g, <<>>)

get_price(args, g) ==
    IF ~Truthy(args, "ids") /\ ~Truthy(args, "symbols")
    THEN Outcome(ErrorPayload(<<"Please provide at least one coin id or symbol">>), <<>>)
    ELSE LET data == coin_price_request(
                         [vs_currencies |-> ArgOr(args, "vs_currencies", <<"usd">>)]
                             @@ [k \in DOMAIN args \ {"vs_currencies"} |-> args[k]], g)
         IN IF data.raised # "none" THEN data
            ELSE IF data.result # None THEN data
            ELSE Outcome(ErrorPayload(<<"Failed to fetch price data">>), data.requests)

MarketParams(args) ==
    [vs_currency |-> ArgOr(args, "vs_currency", <<"usd">>),
     order |-> ArgOr(args, "order", <<"market_cap_desc">>),
     per_page |-> ArgOr(args, "per_page", DefaultPerPage),
     page |-> ArgOr(args, "page", DefaultPage),
     sparkline |-> Lower(StrBool(ArgOr(args, "sparkline", FALSE)))]
      @@ (IF Truthy(args, "ids") THEN [ids |-> args["ids"]] ELSE <<>>)
      @@ (IF Truthy(args, "category") THEN [category |-> args["category"]] ELSE <<>>)

get_market_data(args, g) ==
    Outcome(FetchOrErrorPayload(g["/coins/markets"]),
            <<Request("/coins/markets", MarketParams(args))>>)

get_trending(g) ==
    Outcome(FetchOrErrorPayload(g["/search/trending"]),
            <<Request("/search/trending", <<>>)>>)

\* ----------------------------------------------------------------- prompts
PromptArgument(name, required) == [name |-> name, required |-> required]

PromptTable ==
    << [name |-> "get_coin_list", arguments |-> <<>>],
       [name |-> "get_price",
        arguments |-> << PromptArgument("vs_currencies", TRUE),
                         PromptArgument("ids", FALSE),
                         PromptArgument("symbols", FALSE) >>],
       [name |-> "get_market_data",
        arguments |-> << PromptArgument("vs_currency", TRUE),
                         PromptArgument("ids", FALSE),
                         PromptArgument("category", FALSE),
                         PromptArgument("order", FALSE),
                         PromptArgument("per_page", FALSE),
                         PromptArgument("page", FALSE),
                         PromptArgument("sparkline", FALSE) >>],
       [name |-> "get_trending", arguments |-> <<>>] >>

PromptKeys(table) == {table[i].name : i \in 1..Len(table)}

UserMessage(text) ==
    [t |-> "prompt", messages |-> <<[role |-> "user", type |-> "text", text |-> text]>>]

\* arguments.get(k) if arguments.get(k) else default
GetOr(arguments, k, default) == IF Truthy(arguments, k) THEN arguments[k] ELSE default

Part(label, value) == IF value # <<>> THEN <<label>> \o value ELSE <<>>

PricePromptText(arguments) ==
    LET vs_currencies == GetOr(arguments, "vs_currencies", <<"usd">>)
        ids == GetOr(arguments, "ids", <<>>)
        symbols == GetOr(arguments, "symbols", <<>>)
    IN <<"Get the price of selected coins. vs_currencies: ">> \o vs_currencies
         \o Part(", ids: ", ids) \o Part(", symbols: ", symbols)

\* sparkline falls back to False, which "if sparkline:" skips like ""
MarketPromptText(arguments) ==
    LET vs_currency == GetOr(arguments, "vs_currency", <<"usd">>)
        ids == GetOr(arguments, "ids", <<>>)
        category == GetOr(arguments, "category", <<>>)
        order == GetOr(arguments, "order", <<"market_cap_desc">>)
        per_page == GetOr(arguments, "per_page", IntText(DefaultPerPage))
        page == GetOr(arguments, "page", IntText(DefaultPage))
        sparkline == GetOr(arguments, "sparkline", <<>>)
    IN <<"Get cryptocurrency market data. vs_currency: ">> \o vs_currency
         \o Part(", ids: ", ids) \o Part(", category: ", category)
         \o Part(", order: ", order) \o Part(", per_page: ", per_page)
         \o Part(", page: ", page) \o Part(", sparkline: ", sparkline)

get_prompt(table, name, hasArgs, arguments) ==
    IF name \notin PromptKeys(table)
    THEN Raise("ValueError: Prompt not found", <<>>)
    ELSE IF name = "get_coin_list"
    THEN Outcome(UserMessage(<<"Get a list of all coins available on CoinGecko">>), <<>>)
    ELSE IF name = "get_price"
    THEN IF ~hasArgs
         THEN Raise("AttributeError", <<>>)
         ELSE IF GetOr(arguments, "vs_currencies", <<"usd">>) = <<>>
         THEN Raise("ValueError: vs_currencies argument is required", <<>>)
         ELSE Outcome(UserMessage(PricePromptText(arguments)), <<>>)
    ELSE IF name = "get_market_data"
    THEN IF ~hasArgs
         THEN Raise("ValueError: Arguments are required", <<>>)
         ELSE Outcome(UserMessage(MarketPromptText(arguments)), <<>>)
    ELSE IF name = "get_trending"
    THEN Outcome(UserMessage(<<"Get trending coins in the last 24 hours">>), <<>>)
    ELSE Raise("ValueError: Prompt implementation not found", <<>>)

list_prompts(table) == Outcome([t |-> "prompts", l |-> table], <<>>)

\* ------------------------------------------------------------------ inputs
Opt(k, S) == {<<>>} \cup {(k :> v) : v \in S}

SeqsUpTo(S, n) == UNION {[1..m -> S] : m \in 0..n}

SymbolStrings == SeqsUpTo({"b", "e", ","}, MaxSymLen)

IdStrings == {<<>>, <<"x">>, <<"x", ",", "y">>}

CoinEntries == [symbol : {<<"b">>, <<"e">>}, id : {<<"x">>, <<"y">>, <<>>}]

Catalogs == SeqsUpTo(CoinEntries, MaxCatalog)

Ok(body) == [kind |-> "ok", e |-> <<>>, body |-> body]

Failures == {[kind |-> "RequestError", e |-> <<"connect failed">>, body |-> None],
             [kind |-> "HTTPStatusError", e |-> <<"429">>, body |-> None]}

Payloads ==
    {None,
     [t |-> "dict", d |-> <<>>],
     [t |-> "list", l |-> <<>>],
     [t |-> "dict", d |-> [error |-> <<"rate limited">>]],
     [t |-> "dict", d |-> [bitcoin |-> <<"usd=1">>]]}

Responses == Failures \cup {Ok(p) : p \in Payloads}

CoinListResponses == Responses \cup {Ok([t |-> "list", l |-> c]) : c \in Catalogs}

PriceArgs ==
    {a @@ b @@ c : a \in Opt("vs_currencies", {<<"eur">>}),
                   b \in Opt("ids", IdStrings),
                   c \in Opt("symbols", SymbolStrings)}

MarketArgs ==
    {a @@ b @@ c @@ d @@ e @@ f @@ h :
        a \in Opt("vs_currency", {<<"eur">>}),
        b \in Opt("ids", {<<>>, <<"x">>}),
        c \in Opt("category", {<<>>, <<"defi">>}),
        d \in Opt("order", {<<"volume_asc">>}),
        e \in Opt("per_page", {0, 50}),
        f \in Opt("page", {2}),
        h \in Opt("sparkline", BOOLEAN)}

PromptNames == {"get_coin_list", "get_price", "get_market_data", "get_trending", "bogus"}

PricePromptArgs ==
    {a @@ b @@ c : a \in Opt("vs_currencies", {<<>>, <<"eur">>}),
                   b \in Opt("ids", {<<>>, <<"x">>}),
                   c \in Opt("symbols", {<<>>, <<"b">>})}

MarketPromptArgs ==
    {a @@ b @@ c @@ d @@ e @@ f @@ h :
        a \in Opt("vs_currency", {<<>>, <<"eur">>}),
        b \in Opt("ids", {<<"x">>}),
        c \in Opt("category", {<<"defi">>}),
        d \in Opt("order", {<<>>, <<"volume_asc">>}),
        e \in Opt("per_page", {<<"50">>}),
        f \in Opt("page", {<<"2">>}),
        h \in Opt("sparkline", {<<>>, <<"true">>})}

PromptArgs == PricePromptArgs \cup MarketPromptArgs

\* ----------------------------------------------------------------- actions
Init ==
    /\ pc = "idle"
    /\ req = [op |-> "", name |-> "", hasArgs |-> FALSE, args |-> <<>>]
    /\ gw = <<>>
    /\ requests = <<>>
    /\ result = None
    /\ raised = "none"
    /\ PROMPTS = PromptTable

Finish(op, name, hasArgs, args, g, o) ==
    /\ pc' = "done"
    /\ req' = [op |-> op, name |-> name, hasArgs |-> hasArgs, args |-> args]
    /\ gw' = g
    /\ requests' = o.requests
    /\ result' = o.result
    /\ raised' = o.raised
    /\ UNCHANGED PROMPTS

GetCoinList ==
    /\ pc = "idle"
    /\ \E r \in CoinListResponses :
          LET g == ("/coins/list" :> r)
          IN Finish("get_coin_list", "", TRUE, <<>>, g, get_coin_list(g))

GetPrice ==
    /\ pc = "idle"
    /\ \E a \in PriceArgs, rl \in CoinListResponses, rp \in Responses :
          LET g == ("/coins/list" :> rl) @@ ("/simple/price" :> rp)
          IN Finish("get_price", "", TRUE, a, g, get_price(a, g))

GetMarketData ==
    /\ pc = "idle"
    /\ \E a \in MarketArgs, r \in Responses :
          LET g == ("/coins/markets" :> r)
          IN Finish("get_market_data", "", TRUE, a, g, get_market_data(a, g))

GetTrending ==
    /\ pc = "idle"
    /\ \E r \in Responses :
          LET g == ("/search/trending" :> r)
          IN Finish("get_trending", "", TRUE, <<>>, g, get_trending(g))

ListPrompts ==
    /\ pc = "idle"
    /\ Finish("list_prompts", "", TRUE, <<>>, <<>>, list_prompts(PROMPTS))

GetPrompt ==
    /\ pc = "idle"
    /\ \E name \in PromptNames, hasArgs \in BOOLEAN :
          \E a \in (IF hasArgs THEN PromptArgs ELSE {<<>>}) :
             Finish("get_prompt", name, hasArgs, a, <<>>,
                    get_prompt(PROMPTS, name, hasArgs, a))

Next ==
    \/ GetCoinList
    \/ GetPrice
    \/ GetMarketData
    \/ GetTrending
    \/ ListPrompts
    \/ GetPrompt

Spec == Init /\ [][Next]_vars

\* ------------------------------------------------------------------ claims
\* What the caller supplied, read off the recorded request frame.
Done(op) == pc = "done" /\ req.op = op

NonEmptyArg(k) == k \in DOMAIN req.args /\ Len(req.args[k]) > 0

Urls == {requests[i].url : i \in 1..Len(requests)}

IsErrorPayload(v) == v.t = "dict" /\ "error" \in DOMAIN v.d

ValidationError == [t |-> "dict", d |-> [error |-> <<"Please provide at least one coin id or symbol">>]]

NoValidSymbolsError == [t |-> "dict", d |-> [error |-> <<"No valid symbols provided">>]]

FetchFailedError == [t |-> "dict", d |-> [error |-> <<"Failed to fetch price data">>]]

\* C1: a get_price call with ids and symbols both absent or empty returns the
\* validation error payload and issues no Gateway request at all.
C1_NoIdsNoSymbols ==
    (Done("get_price") /\ ~NonEmptyArg("ids") /\ ~NonEmptyArg("symbols"))
        => /\ raised = "none"
           /\ result = ValidationError
           /\ requests = <<>>

C1_Witness ==
    /\ Done("get_price")
    /\ "ids" \in DOMAIN req.args /\ req.args["ids"] = <<>>
    /\ "symbols" \in DOMAIN req.args /\ req.args["symbols"] = <<>>
    /\ "vs_currencies" \in DOMAIN req.args
    /\ result = ValidationError
    /\ requests = <<>>

\* The catalog the Gateway stub answers the coin-list fetch with, when that
\* fetch succeeds with a list.
CatalogFetched == gw["/coins/list"].kind = "ok" /\ gw["/coins/list"].body.t = "list"

Catalog == gw["/coins/list"].body.l

RequestedSymbols == Split(req.args["symbols"])

InCatalog(symbol) == \E j \in 1..Len(Catalog) : Catalog[j].symbol = symbol

BySymbolsOnly == Done("get_price") /\ NonEmptyArg("symbols") /\ ~NonEmptyArg("ids")

\* C3: get_price with symbols, no ids, and a successfully fetched catalog that
\* holds none of the requested symbols returns the "no valid symbols" error,
\* never calls the price endpoint, and that error differs from the generic
\* fetch-failure error and from every successful price payload.
C3_NoValidSymbols ==
    (BySymbolsOnly /\ CatalogFetched
       /\ \A i \in 1..Len(RequestedSymbols) : ~InCatalog(RequestedSymbols[i]))
        => /\ raised = "none"
           /\ result = NoValidSymbolsError
           /\ "/simple/price" \notin Urls
           /\ result # FetchFailedError
           /\ result \notin Payloads

C3_Witness ==
    /\ BySymbolsOnly /\ CatalogFetched
    /\ req.args["symbols"] = <<"e", ",", "e">>
    /\ Len(Catalog) = 2
    /\ \A j \in 1..Len(Catalog) : Catalog[j].symbol = <<"b">>
    /\ result = NoValidSymbolsError
    /\ Urls = {"/coins/list"}

\* The ids of the requested symbols that occur in the catalog, in request
\* order, each taken from the last catalog entry carrying that symbol.
RECURSIVE ExpectedIds(_)
ExpectedIds(symbols) ==
    IF symbols = <<>> THEN <<>>
    ELSE LET hits == {j \in 1..Len(Catalog) : Catalog[j].symbol = Head(symbols)}
             last == CHOOSE j \in hits : \A k \in hits : k <= j
         IN (IF hits = {} THEN <<>> ELSE <<Catalog[last].id>>)
               \o ExpectedIds(Tail(symbols))

\* C8: symbol resolution yields exactly the ids of the requested symbols that
\* occur in the catalog, in request order with duplicates kept, unmatched
\* symbols dropped without error, and the last catalog entry of a symbol
\* winning; the resolved list is what the price request carries as ids, and
\* an empty resolution is the "no valid symbols" payload.
C8_Resolution ==
    (BySymbolsOnly /\ CatalogFetched)
        => /\ raised = "none"
           /\ IF ExpectedIds(RequestedSymbols) = <<>>
              THEN result = NoValidSymbolsError /\ Len(requests) = 1
              ELSE /\ Len(requests) = 2
                   /\ requests[2].url = "/simple/price"
                   /\ Split(requests[2].params["ids"]) = ExpectedIds(RequestedSymbols)

C8_Witness ==
    /\ BySymbolsOnly /\ CatalogFetched
    /\ req.args["symbols"] = <<"b", ",", "e">>
    /\ Catalog = <<[symbol |-> <<"b">>, id |-> <<"x">>], [symbol |-> <<"b">>, id |-> <<"y">>]>>
    /\ Len(requests) = 2
    /\ requests[2].params["ids"] = <<"y">>

ToolOps == {"get_coin_list", "get_price", "get_market_data", "get_trending"}

ToolDone == pc = "done" /\ req.op \in ToolOps

\* C5 as stated: every invocation that reaches the Gateway issues exactly one
\* upstream request in total.
C5_ExactlyOneRequest ==
    (ToolDone /\ Len(requests) >= 1) => Len(requests) = 1

\* C5 as the code has it: no request is ever sent twice, and every invocation
\* that reaches the Gateway sends exactly one request, except get_price driven
\* by symbols alone, which sends the coin-list request first and then at most
\* one price request, none at all once the coin-list fetch has failed.
C5_OneRequestPerEndpoint ==
    ToolDone =>
        /\ \A i, j \in 1..Len(requests) : i # j => requests[i].url # requests[j].url
        /\ IF BySymbolsOnly
           THEN /\ Len(requests) \in {1, 2}
                /\ requests[1].url = "/coins/list"
                /\ Len(requests) = 2 => requests[2].url = "/simple/price"
                /\ gw["/coins/list"].kind # "ok" => Len(requests) = 1
           ELSE IF req.op = "get_price" /\ ~NonEmptyArg("ids")
           THEN requests = <<>>
           ELSE Len(requests) = 1

C5_Witness ==
    /\ BySymbolsOnly
    /\ gw["/simple/price"].kind = "HTTPStatusError"
    /\ Len(requests) = 2
    /\ requests[1].url = "/coins/list"
    /\ requests[2].url = "/simple/price"
    /\ result = FetchFailedError

\* C9: the markets query carries sparkline as the lowercase text "true" or
\* "false", order, per_page and page as supplied or else "market_cap_desc",
\* 100 and 1, and the ids and category keys exactly when the filter was
\* supplied non-empty.
C9_MarketsQuery ==
    Done("get_market_data") =>
        /\ Len(requests) = 1
        /\ requests[1].url = "/coins/markets"
        /\ LET q == requests[1].params
               a == req.args
               supplied(k) == k \in DOMAIN a
           IN /\ q["sparkline"] = (IF supplied("sparkline") /\ a["sparkline"]
                                   THEN <<"true">> ELSE <<"false">>)
              /\ q["order"] = (IF supplied("order") THEN a["order"] ELSE <<"market_cap_desc">>)
              /\ q["per_page"] = (IF supplied("per_page") THEN a["per_page"] ELSE 100)
              /\ q["page"] = (IF supplied("page") THEN a["page"] ELSE 1)
              /\ "ids" \in DOMAIN q <=> NonEmptyArg("ids")
              /\ "category" \in DOMAIN q <=> NonEmptyArg("category")
              /\ NonEmptyArg("ids") => q["ids"] = a["ids"]
              /\ NonEmptyArg("category") => q["category"] = a["category"]

C9_Witness ==
    /\ Done("get_market_data")
    /\ DOMAIN req.args = {"sparkline", "category", "per_page"}
    /\ req.args["sparkline"] = TRUE
    /\ req.args["category"] = <<>>
    /\ req.args["per_page"] = 0
    /\ requests[1].params =
          [vs_currency |-> <<"usd">>, order |-> <<"market_cap_desc">>,
           per_page |-> 0, page |-> 1, sparkline |-> <<"true">>]

Position(url) == CHOOSE i \in 1..Len(requests) : requests[i].url = url

\* C2: whenever get_price is given symbols, with or without ids, the coin
\* catalog is fetched before the price endpoint is called, and the ids sent to
\* the price endpoint include the ids the symbols resolve to.
C2_SymbolsResolvedFirst ==
    (Done("get_price") /\ NonEmptyArg("symbols") /\ "/simple/price" \in Urls)
        => /\ "/coins/list" \in Urls
           /\ Position("/coins/list") < Position("/simple/price")
           /\ CatalogFetched =>
                 LET sent == Split(requests[Position("/simple/price")].params["ids"])
                     want == ExpectedIds(RequestedSymbols)
                 IN \A i \in 1..Len(want) : \E j \in 1..Len(sent) : sent[j] = want[i]

\* C2 as the code has it: whenever get_price is given symbols and no ids, the
\* coin catalog is fetched before the price endpoint is called, and the ids
\* sent to the price endpoint are the ids the symbols resolve to; with ids
\* supplied the symbols are not consulted and the catalog is not fetched.
C2_SymbolsWithoutIds ==
    /\ (BySymbolsOnly /\ "/simple/price" \in Urls)
          => /\ CatalogFetched
             /\ Len(requests) = 2
             /\ requests[1].url = "/coins/list"
             /\ requests[2].url = "/simple/price"
             /\ LET sent == Split(requests[2].params["ids"])
                    want == ExpectedIds(RequestedSymbols)
                IN \A i \in 1..Len(want) : \E j \in 1..Len(sent) : sent[j] = want[i]
    /\ (Done("get_price") /\ NonEmptyArg("ids"))
          => /\ Urls = {"/simple/price"}
             /\ requests[1].params["ids"] = req.args["ids"]

C2_Witness ==
    /\ BySymbolsOnly /\ CatalogFetched
    /\ req.args["symbols"] = <<"e", ",", "b">>
    /\ Catalog = <<[symbol |-> <<"b">>, id |-> <<"x">>], [symbol |-> <<"e">>, id |-> <<"y">>]>>
    /\ Len(requests) = 2
    /\ requests[1].url = "/coins/list"
    /\ requests[2].params["ids"] = <<"y", ",", "x">>

\* The failure the Gateway stub answers one of the issued requests with.
FailedUrls == {u \in Urls : gw[u].kind # "ok"}

KindTag(kind) == IF kind = "RequestError" THEN "Request error: " ELSE "HTTP error: "

\* C4: when an upstream call of one of the four operations fails, by a
\* transport error or by an HTTP error status, the operation raises nothing
\* and returns an error payload whose text starts with the tag of the failure
\* kind that occurred, followed by the failure's message.
C4_FailureKindReported ==
    (ToolDone /\ FailedUrls # {})
        => /\ raised = "none"
           /\ IsErrorPayload(result)
           /\ \E u \in FailedUrls :
                 result.d["error"] = <<KindTag(gw[u].kind)>> \o gw[u].e

\* C6: when every Gateway call of an invocation succeeds with one and the
\* same JSON payload, the operation returns that payload unchanged.
C6_PayloadUnchanged ==
    (ToolDone /\ Urls # {} /\ FailedUrls = {}
       /\ \A u, v \in Urls : gw[u].body = gw[v].body)
        => /\ raised = "none"
           /\ \A u \in Urls : result = gw[u].body

\* C7: the rendered prompt text mentions a declared parameter exactly when the
\* caller supplied it (with a non-empty value) or the prompt declares it
\* required.
Declared(name) ==
    LET i == CHOOSE i \in 1..Len(PROMPTS) : PROMPTS[i].name = name
    IN PROMPTS[i].arguments

Mentions(text, param) ==
    \E i \in 1..Len(text) :
        \/ text[i] = ", " \o param \o ": "
        \/ text[i] = "Get the price of selected coins. " \o param \o ": "
        \/ text[i] = "Get cryptocurrency market data. " \o param \o ": "

C7_OnlySuppliedMentioned ==
    (Done("get_prompt") /\ raised = "none")
        => LET declared == Declared(req.name)
           IN \A i \in 1..Len(declared) :
                 Mentions(result.messages[1].text, declared[i].name)
                    <=> (NonEmptyArg(declared[i].name) \/ declared[i].required)

\* C10: get_prompt, for any name and any arguments including none at all,
\* either returns exactly one user-role text message or fails with its own
\* "not found" or missing-arguments error, calls no Gateway endpoint and
\* leaves PROMPTS as it was.
C10_PromptTotal ==
    Done("get_prompt")
        => /\ \/ /\ raised = "none"
                 /\ Len(result.messages) = 1
                 /\ result.messages[1].role = "user"
                 /\ result.messages[1].type = "text"
              \/ raised \in {"ValueError: Prompt not found",
                             "ValueError: Arguments are required",
                             "ValueError: vs_currencies argument is required"}
           /\ requests = <<>>
           /\ PROMPTS = PromptTable

====
